---- MODULE Spec2Model ----
(***************************************************************************)
(* Corpus construction and relevance propagation of the wikifacts-datasets *)
(* scripts (sents.py, paras.py, articles.py, windows.py).                  *)
(*                                                                         *)
(* One run of one script is one behaviour: `mode' names the script.  The   *)
(* input (facts, their source references, the judged excerpts, the rows of *)
(* the sentence-level relevance file) is drawn step by step from small     *)
(* sets; the text of a source document is fixed the first time its URL is  *)
(* referenced (the same URL always carries the same text).  Spec is a      *)
(* whole run, SpecConstruct the construction of corpus and intervals,      *)
(* SpecMalformed a run on an input with malformed records or references    *)
(* without text, SpecNormalize preprocess_text applied to a text.          *)
(*                                                                         *)
(* A text is a sequence of one-character strings.  A source document is    *)
(* given by its structure: a sequence of paragraphs, each a sequence of    *)
(* sentences, each a text.                                                 *)
(***************************************************************************)
EXTENDS Integers, Sequences, FiniteSets, TLC

\* ------------------------------------------------------------------ bounds
MaxFacts == 2     \* facts in the input
MaxRefs == 3      \* source references in the input, over all facts
MaxUnits == 3     \* sentences in the sentence corpus
MaxWindow == 2    \* window_size ranges over 1..MaxWindow
MaxRows == 2      \* rows of qrels.tsv read / judged excerpts that leave a line
MaxScore == 2     \* scores range over 0..MaxScore

\* URL number k stands for the k-th URL the run meets
MaxUrls == 2

\* malformed records and references without text in the input
MaxMalformed == 1

\* the texts given to preprocess_text alone
MaxTextLen == 5   \* characters of a text
MaxApplied == 2   \* applications of preprocess_text to a text
Urls == 1..MaxUrls
Modes == {"sents", "paras", "articles", "windows"}
Scores == 0..MaxScore

\* Characters.  "a" is the Cyrillic letter a, "b" another letter, "i" the
\* Cyrillic letter i and "j" the short i (U+0439, i with breve), one of the two
\* letters of exclude_chars; "A" is the a with breve (U+04D1), which only NFC
\* produces.
SP == " "
NL == "\n"
NBSP == "~"      \* U+00A0
EQ == "="
Acute == "'"     \* U+0301, combining
Breve == "^"     \* U+0306, combining
TxtA == <<"a">>
TxtB == <<"b">>
TxtAB == <<"a", "b">>

\* The source documents of the model: empty text, one sentence, two
\* sentences of one paragraph, two one-sentence paragraphs.
Documents ==
  { <<>>,
    << <<TxtA>> >>,
    << <<TxtA, TxtB>> >>,
    << <<TxtA>>, <<TxtB>> >> }

\* link_item.get("link_data") of a reference whose link_data key is absent,
\* and of one whose link_data is null: neither is a text
AbsentText == << << <<"absent">> >> >>
NullText == << << <<"null">> >> >>

\* link_item.get("link") of a reference without a link key: None, a
\* dictionary key like any URL
NoUrl == 0

\* a line of qrels.tsv with two fields
ShortRow == <<0, 0>>

\* the characters of the texts given to preprocess_text alone
NormChars == {"a", "i", "j", SP, NL, NBSP, EQ, Acute, Breve}

VARIABLES
  texts,                \* a text and the results of preprocess_text applied to it again and again
  written,              \* the output files written so far
  no_links,             \* the numbers of the facts read that have no links key
  mode,                 \* the script that runs
  pc,                   \* position in the script
  window_size,          \* windows.py: window_size, 0 until it is set
  link_data,            \* URL -> source document, for the URLs referenced so far
  data,                 \* the facts read so far, each the sequence of its link URLs
  corpus,               \* corpus / corpus_articles / global_sentences_list: unit texts, unit i at i + 1
  doc_counter,          \* doc_counter / global_sentence_counter
  processed_links,      \* URL -> interval
  query_interval,       \* fact number + 1 -> sequence of intervals
  fact_counter,
  fact_links,
  intervals_for_fact,
  corpus_sentences,     \* corpus.jsonl as sents.py writes it for the same facts
  total_windows,
  corpus_window,        \* window i at i + 1; window_to_sentence_index of window i is i
  raised,               \* an IndexError was raised
  query_interval_window,
  extended_query_interval,
  qrels_file,           \* the rows of qrels.tsv read so far, each <<fact, sentence, score>>
  qrels_sents,          \* dict fact -> dict sentence -> score, in insertion order
  updated_qrels,        \* dict fact -> (unit -> score)
  qrels_out,            \* the rows written to the relevance file, each <<fact, unit, score>>
  cursor,               \* sents.py: <<fact, link>> position of the qrels loop
  qrels_lines,          \* sents.py: qrels_lines
  not_found_lines,      \* sents.py: not_found_lines
  judged                \* sents.py: the score items with a score other than 0 read so far

vars == << texts, written, no_links, mode, pc, window_size, link_data, data, corpus, doc_counter,
           processed_links, query_interval, fact_counter, fact_links,
           intervals_for_fact, corpus_sentences, total_windows, corpus_window,
           raised, query_interval_window, extended_query_interval,
           qrels_file, qrels_sents, updated_qrels, qrels_out, cursor,
           qrels_lines, not_found_lines, judged >>

\* ------------------------------------------------------------- text helpers
RECURSIVE Flatten(_)
Flatten(ss) == IF ss = <<>> THEN <<>> ELSE Head(ss) \o Flatten(Tail(ss))

\* sep.join(parts)
RECURSIVE Join(_, _)
Join(parts, sep) ==
  IF parts = <<>> THEN <<>>
  ELSE IF Len(parts) = 1 THEN Head(parts)
  ELSE Head(parts) \o sep \o Join(Tail(parts), sep)

\* whitespace for str.strip(), str.split() and \s
IsSpace(c) == c \in {SP, NL, NBSP}

RECURSIVE LStrip(_)
LStrip(t) == IF t # <<>> /\ IsSpace(Head(t)) THEN LStrip(Tail(t)) ELSE t

RECURSIVE RStrip(_)
RStrip(t) ==
  IF t # <<>> /\ IsSpace(t[Len(t)]) THEN RStrip(SubSeq(t, 1, Len(t) - 1)) ELSE t

\* str.strip()
Strip(t) == RStrip(LStrip(t))

\* re.sub(r'a\u0301', 'a', text), a the Cyrillic letter
RECURSIVE StripStress(_)
StripStress(t) ==
  IF t = <<>> THEN <<>>
  ELSE IF Len(t) >= 2 /\ t[1] = "a" /\ t[2] = Acute
    THEN <<"a">> \o StripStress(SubSeq(t, 3, Len(t)))
  ELSE <<Head(t)>> \o StripStress(Tail(t))

\* the position of the first "==" at or after position p, 0 when there is none
RECURSIVE FindEq(_, _)
FindEq(t, p) ==
  IF p + 1 > Len(t) THEN 0
  ELSE IF t[p] = EQ /\ t[p + 1] = EQ THEN p
  ELSE FindEq(t, p + 1)

\* \s* from position p: the position of the first character that is no
\* whitespace
RECURSIVE SkipSpace(_, _)
SkipSpace(t, p) ==
  IF p <= Len(t) /\ IsSpace(t[p]) THEN SkipSpace(t, p + 1) ELSE p

\* re.sub(r"==\s*(.*?)\s*==\s*", r"\1 ", text) from position p on: the
\* leftmost opening "==" at i, the group from the first non-space after it to
\* the last non-space before the next "==" at j; `.' matches no newline
RECURSIVE SubHeaders(_, _)
SubHeaders(t, p) ==
  LET i == FindEq(t, p)
      p0 == SkipSpace(t, i + 2)
      j == FindEq(t, p0)
      group == RStrip(SubSeq(t, p0, j - 1))
  IN  IF i = 0 THEN SubSeq(t, p, Len(t))
      ELSE IF j # 0 /\ \A k \in 1..Len(group) : group[k] # NL
        THEN SubSeq(t, p, i - 1) \o group \o <<SP>>
               \o SubHeaders(t, SkipSpace(t, j + 2))
      ELSE SubSeq(t, p, i) \o SubHeaders(t, i + 1)

\* text.replace('\xa0', ' ')
ReplaceNbsp(t) == [k \in 1..Len(t) |-> IF t[k] = NBSP THEN SP ELSE t[k]]

\* unicodedata.normalize('NFC', text): a base letter and the breve after it
\* compose
RECURSIVE NFC(_)
NFC(t) ==
  IF t = <<>> THEN <<>>
  ELSE IF Len(t) >= 2 /\ t[1] = "i" /\ t[2] = Breve
    THEN <<"j">> \o NFC(SubSeq(t, 3, Len(t)))
  ELSE IF Len(t) >= 2 /\ t[1] = "a" /\ t[2] = Breve
    THEN <<"A">> \o NFC(SubSeq(t, 3, Len(t)))
  ELSE <<Head(t)>> \o NFC(Tail(t))

\* unicodedata.normalize('NFD', char)
NFD(c) ==
  CASE c = "j" -> <<"i", Breve>>
    [] c = "A" -> <<"a", Breve>>
    [] OTHER -> <<c>>

\* unicodedata.combining(c) != 0
IsCombining(c) == c \in {Acute, Breve}

\* the loop `for char in text': a character of exclude_chars is kept, any
\* other is decomposed and loses its combining characters
RECURSIVE StripDiacritics(_)
StripDiacritics(t) ==
  IF t = <<>> THEN <<>>
  ELSE (IF Head(t) = "j" THEN <<"j">>
        ELSE SelectSeq(NFD(Head(t)), LAMBDA c : ~IsCombining(c)))
         \o StripDiacritics(Tail(t))

preprocess_text(t) ==
  StripDiacritics(NFC(Strip(ReplaceNbsp(SubHeaders(StripStress(t), 1)))))

\* Python's `s in t' on strings
IsSubstring(s, t) ==
  \E i \in 0..(Len(t) - Len(s)) : SubSeq(t, i + 1, i + Len(s)) = s

is_sentence_in_paragraph(sentence, paragraph) ==
  IsSubstring(preprocess_text(sentence), preprocess_text(paragraph))

\* The raw text of a source document: sentences separated by a space,
\* paragraphs by a blank line.
RECURSIVE ParagraphTexts(_)
ParagraphTexts(doc) ==
  IF doc = <<>> THEN <<>>
  ELSE <<Join(Head(doc), <<SP>>)>> \o ParagraphTexts(Tail(doc))

ArticleText(doc) == preprocess_text(Join(ParagraphTexts(doc), <<NL, NL>>))

\* [sent.text for sent in sentenize(article_text)], empty ones dropped
Sentences(doc) == SelectSeq(Flatten(doc), LAMBDA s : s # <<>>)

\* [para.strip() for para in article_text.split("\n\n") if para.strip()]
Paragraphs(doc) ==
  LET stripped == [i \in 1..Len(doc) |-> Strip(ParagraphTexts(doc)[i])]
  IN  SelectSeq(stripped, LAMBDA p : p # <<>>)

\* [s.text.strip() for s in sentence_objs if s.text.strip()]
StrippedSentences(doc) ==
  LET all == Flatten(doc)
      stripped == [i \in 1..Len(all) |-> Strip(all[i])]
  IN  SelectSeq(stripped, LAMBDA s : s # <<>>)

\* ------------------------------------------------------------ unit builder
\* variant: the end is the counter itself
IntervalOf_EndIsCounter(start, counter_after) == <<start, counter_after>>

\* interval = (article_id_start, article_id_end), article_id_end = doc_counter - 1
IntervalOf(start, counter_after) == <<start, counter_after - 1>>

\* variant: the counter also advances for a sentence that is dropped
CounterAfter_CountsDropped(counter, units) == counter + Len(units) + 1

\* doc_counter += 1 for every unit appended to the corpus
CounterAfter(counter, units) == counter + Len(units)

\* the units one source document adds to the corpus of the running script
Units(doc) ==
  CASE mode = "sents" -> Sentences(doc)
    [] mode = "paras" -> Paragraphs(doc)
    [] mode = "articles" -> <<ArticleText(doc)>>
    [] mode = "windows" -> StrippedSentences(doc)

\* windows.py: `if not article_text: continue' and `if not sentences: continue'
SkipsEmpty(doc) ==
  /\ mode = "windows"
  /\ doc # NullText
  /\ doc = AbsentText \/ ArticleText(doc) = <<>> \/ StrippedSentences(doc) = <<>>

\* preprocess_text(None) raises TypeError; windows.py reads an absent
\* link_data as ""
RaisesOnText(doc) ==
  doc = NullText \/ (doc = AbsentText /\ mode # "windows")

\* variant: the set of the fact's URLs is never consulted
SeenInFact_Never(u) == FALSE

\* `if link_url in fact_links: continue'
SeenInFact(u) == u \in fact_links

\* variant: the cache is never consulted
CacheHit_Never(u) == FALSE

CacheHit(u) == u \in DOMAIN processed_links

\* ------------------------------------------------------------------ pass 1
\* nothing read, nothing built
Blank ==
  /\ written = {}
  /\ no_links = {}
  /\ window_size = 0
  /\ link_data = <<>>
  /\ data = <<>>
  /\ corpus = <<>>
  /\ doc_counter = 0
  /\ processed_links = <<>>
  /\ query_interval = <<>>
  /\ fact_counter = 0
  /\ fact_links = {}
  /\ intervals_for_fact = <<>>
  /\ corpus_sentences = <<>>
  /\ total_windows = 0
  /\ corpus_window = <<>>
  /\ raised = FALSE
  /\ query_interval_window = <<>>
  /\ extended_query_interval = <<>>
  /\ qrels_file = <<>>
  /\ qrels_sents = <<>>
  /\ updated_qrels = <<>>
  /\ qrels_out = <<>>
  /\ cursor = <<1, 1>>
  /\ qrels_lines = <<>>
  /\ not_found_lines = <<>>
  /\ judged = 0

Init ==
  /\ mode \in Modes
  /\ pc = "queries"
  /\ texts = <<>>
  /\ Blank

pass1Vars == << link_data, data, corpus, doc_counter, processed_links,
               query_interval, fact_counter, fact_links, intervals_for_fact,
               corpus_sentences >>

sentQrelsVars == << cursor, qrels_lines, not_found_lines, judged >>

qrelsVars == << qrels_file, qrels_sents, updated_qrels, qrels_out, sentQrelsVars >>

windowVars == << total_windows, corpus_window, raised, query_interval_window,
                 extended_query_interval >>

\* the malformed records read so far that did not end the run: facts without
\* links, references without link, lines of qrels.tsv without three fields
\* or with a sentence id that corpus.jsonl does not hold
MalformedRecords ==
  LET refs == Flatten(data)
  IN  Cardinality(no_links)
        + Cardinality({i \in 1..Len(refs) : refs[i] = NoUrl})
        + Cardinality({i \in 1..Len(qrels_file) :
                         \/ Len(qrels_file[i]) # 3
                         \/ qrels_file[i][2] >= Len(corpus_sentences)})

\* the references read so far whose link_data is absent or null
MissingSources ==
  LET refs == Flatten(data)
  IN  Cardinality({i \in 1..Len(refs) :
                     link_data[refs[i]] \in {AbsentText, NullText}})

MalformedRead == MalformedRecords + MissingSources

\* the creation of the queries and the write of queries.jsonl (paras.py
\* writes no queries file)
CreateQueries ==
  /\ pc = "queries"
  /\ pc' = "facts"
  /\ written' = IF mode = "paras" THEN written ELSE written \cup {"queries.jsonl"}
  /\ UNCHANGED << no_links, texts, mode, window_size, pass1Vars, windowVars, qrelsVars >>

\* a fact without a fact key: item["fact"] raises KeyError
CreateQueriesNoFact ==
  /\ pc = "queries"
  /\ pc' = "crashed"
  /\ UNCHANGED << written, no_links, texts, mode, window_size, pass1Vars, windowVars,
                  qrelsVars >>

\* for item in data: fact_id, fact_counter += 1, intervals_for_fact = [], fact_links = set()
BeginFact ==
  /\ pc = "facts"
  /\ fact_counter < MaxFacts
  /\ pc' = "links"
  /\ fact_counter' = fact_counter + 1
  /\ intervals_for_fact' = <<>>
  /\ fact_links' = {}
  /\ data' = Append(data, <<>>)
  /\ UNCHANGED << written, no_links, texts, mode, window_size, link_data, corpus,
                  doc_counter, processed_links, query_interval, corpus_sentences,
                  windowVars, qrelsVars >>

\* a fact without a links key: item.get("links", []) is the empty list, the
\* loop over the links has nothing to do
BeginFactNoLinks ==
  /\ pc = "facts"
  /\ MalformedRead < MaxMalformed
  /\ fact_counter < MaxFacts
  /\ fact_counter' = fact_counter + 1
  /\ intervals_for_fact' = <<>>
  /\ fact_links' = {}
  /\ data' = Append(data, <<>>)
  /\ query_interval' = Append(query_interval, <<>>)
  /\ no_links' = no_links \cup {fact_counter}
  /\ UNCHANGED << written, texts, mode, pc, window_size, link_data, corpus, doc_counter,
                  processed_links, corpus_sentences, windowVars, qrelsVars >>

\* one iteration of `for link_item in links' on the reference to u, whose
\* link_data is d
LinkStep(u, d) ==
  /\ pc = "links"
  /\ Len(Flatten(data)) < MaxRefs
  /\ IF u \in DOMAIN link_data THEN d = link_data[u]
       ELSE /\ u = NoUrl \/ u = Cardinality(DOMAIN link_data \ {NoUrl}) + 1
            /\ d \in Documents =>
                 Len(corpus_sentences) + Len(Sentences(d)) <= MaxUnits
  /\ link_data' = IF u \in DOMAIN link_data THEN link_data
                  ELSE [x \in DOMAIN link_data \cup {u} |->
                          IF x = u THEN d ELSE link_data[x]]
  /\ data' = [data EXCEPT ![Len(data)] = Append(@, u)]
  /\ IF SeenInFact(u)
       THEN UNCHANGED << pc, fact_links, intervals_for_fact, corpus, doc_counter,
                         processed_links, corpus_sentences >>
       ELSE /\ fact_links' = fact_links \cup {u}
            /\ IF CacheHit(u)
                 THEN /\ intervals_for_fact' =
                           Append(intervals_for_fact, processed_links[u])
                      /\ UNCHANGED << pc, corpus, doc_counter, processed_links,
                                      corpus_sentences >>
                 ELSE IF RaisesOnText(d)
                 THEN /\ pc' = "crashed"
                      /\ UNCHANGED << intervals_for_fact, corpus, doc_counter,
                                      processed_links, corpus_sentences >>
                 ELSE IF SkipsEmpty(d)
                 THEN UNCHANGED << pc, intervals_for_fact, corpus, doc_counter,
                                   processed_links, corpus_sentences >>
                 ELSE LET units == Units(d)
                          after == CounterAfter(doc_counter, units)
                          interval == IntervalOf(doc_counter, after)
                      IN  /\ pc' = pc
                          /\ corpus' = corpus \o units
                          /\ doc_counter' = after
                          /\ processed_links' =
                               [x \in DOMAIN processed_links \cup {u} |->
                                  IF x = u THEN interval ELSE processed_links[x]]
                          /\ intervals_for_fact' = Append(intervals_for_fact, interval)
                          /\ corpus_sentences' = corpus_sentences \o Sentences(d)
  /\ UNCHANGED << written, no_links, texts, mode, window_size, query_interval,
                  fact_counter, windowVars, qrelsVars >>

\* a reference with a URL and a text
ProcessLink(u, d) ==
  /\ u \in Urls
  /\ d \in Documents
  /\ LinkStep(u, d)

\* a reference whose source has no text: link_data absent or null
ProcessLinkNoText(u, d) ==
  /\ u \in Urls
  /\ d \in {AbsentText, NullText}
  /\ MalformedRead < MaxMalformed
  /\ LinkStep(u, d)

\* a reference without a URL
ProcessLinkNoUrl(d) ==
  /\ d \in Documents
  /\ MalformedRead < MaxMalformed
  /\ LinkStep(NoUrl, d)

\* query_interval[fact_id] = intervals_for_fact
EndFact ==
  /\ pc = "links"
  /\ pc' = "facts"
  /\ query_interval' = Append(query_interval, intervals_for_fact)
  /\ UNCHANGED << written, no_links, texts, mode, window_size, link_data, data, corpus, doc_counter,
                  processed_links, fact_counter, fact_links, intervals_for_fact,
                  corpus_sentences, windowVars, qrelsVars >>

\* sents.py's loop `for link_item in links' over the references refs of one
\* fact, as a function of the input; seen is fact_links, cache is
\* processed_links, counter is doc_counter, ivs is intervals_for_fact; the
\* result is <<processed_links, doc_counter, intervals_for_fact>>
RECURSIVE SentsLinks(_, _, _, _, _)
SentsLinks(refs, seen, cache, counter, ivs) ==
  IF refs = <<>> THEN <<cache, counter, ivs>>
  ELSE LET u == Head(refs)
           after == counter + Len(Sentences(link_data[u]))
           interval == IntervalOf(counter, after)
       IN  IF u \in seen
             THEN SentsLinks(Tail(refs), seen, cache, counter, ivs)
           ELSE IF u \in DOMAIN cache
             THEN SentsLinks(Tail(refs), seen \cup {u}, cache, counter,
                             Append(ivs, cache[u]))
           ELSE SentsLinks(Tail(refs), seen \cup {u},
                           [x \in DOMAIN cache \cup {u} |->
                              IF x = u THEN interval ELSE cache[x]],
                           after, Append(ivs, interval))

\* sents.py's loop `for item in data' over the facts, as a function of the
\* input; the result is <<processed_links, query_interval>>
RECURSIVE SentsFacts(_, _, _, _)
SentsFacts(facts, cache, counter, qi) ==
  IF facts = <<>> THEN <<cache, qi>>
  ELSE LET r == SentsLinks(Head(facts), {}, cache, counter, <<>>)
       IN  SentsFacts(Tail(facts), r[1], r[2], Append(qi, r[3]))

\* ---------------------------------------------------------- window assembler
\* variant: the `+ 1' is missing
TotalWindows_OffByOne(total_sentences, w) == total_sentences - w

\* total_windows = total_sentences - window_size + 1
TotalWindows(total_sentences, w) == total_sentences - w + 1

\* " ".join(global_sentences_list[j][1] for j in range(i, i + window_size))
WindowText(i, w) ==
  Join([k \in 1..w |-> corpus[i + k]], <<SP>>)

\* global_sentences_list[j] is in range for every j of window i
WindowInRange(i, w) == i + w <= Len(corpus)

\* window_size, total_windows and the loop `for i in range(total_windows)';
\* w is the configured window size
BuildWindows(w) ==
  /\ pc = "facts"
  /\ mode = "windows"
  /\ window_size' = w
  /\ LET tw == TotalWindows(doc_counter, w)
         n == IF tw > 0 THEN tw ELSE 0
     IN  /\ total_windows' = tw
         /\ IF \A i \in 0..(n - 1) : WindowInRange(i, w)
              THEN /\ corpus_window' = [i \in 1..n |-> WindowText(i - 1, w)]
                   /\ pc' = "convert"
                   /\ UNCHANGED raised
              ELSE /\ raised' = TRUE
                   /\ pc' = "crashed"
                   /\ UNCHANGED corpus_window
  /\ written' = written \cup {"query-interval-sent.json"}
  /\ UNCHANGED << no_links, texts, mode, pass1Vars, query_interval_window,
                  extended_query_interval, qrelsVars >>

\* one iteration of `for (start, end) in intervals' of query_interval_window
WindowInterval(iv) ==
  LET start == iv[1]
      end == iv[2]
      e1 == end + (window_size - 1)
      extended_end == IF e1 >= doc_counter THEN doc_counter - 1 ELSE e1
      window_start == start
      w1 == extended_end - window_size + 1
      window_end == IF w1 < window_start THEN window_start ELSE w1
  IN  <<window_start, window_end>>

ConvertIntervals ==
  /\ pc = "convert"
  /\ pc' = "extend"
  /\ query_interval_window' =
       [f \in 1..Len(query_interval) |->
          [k \in 1..Len(query_interval[f]) |-> WindowInterval(query_interval[f][k])]]
  /\ UNCHANGED << written, no_links, texts, mode, window_size, pass1Vars,
                  total_windows, corpus_window, raised, extended_query_interval,
                  qrelsVars >>

\* variant: every fact is extended on both sides
ExtendInterval_BothSides(i, n, iv) ==
  LET l1 == iv[1] - (window_size - 1)
      r1 == iv[2] + (window_size - 1)
  IN  <<IF l1 > 0 THEN l1 ELSE 0,
        IF r1 >= total_windows THEN total_windows - 1 ELSE r1>>

\* one iteration of `for (L, R) in intervals' of extended_query_interval;
\* i is the position of the fact in fact_ids, n is len(fact_ids)
ExtendInterval(i, n, iv) ==
  LET L0 == iv[1]
      R0 == iv[2]
      l1 == L0 - (window_size - 1)
      L == IF i # 0 THEN (IF l1 > 0 THEN l1 ELSE 0) ELSE L0
      r1 == R0 + (window_size - 1)
      R == IF i # n - 1
             THEN (IF r1 >= total_windows THEN total_windows - 1 ELSE r1)
             ELSE R0
  IN  <<L, R>>

\* fact_ids sorted by number is the order of query_interval_window
ExtendIntervals ==
  /\ pc = "extend"
  /\ pc' = "qrels"
  /\ extended_query_interval' =
       [f \in 1..Len(query_interval_window) |->
          [k \in 1..Len(query_interval_window[f]) |->
             ExtendInterval(f - 1, Len(query_interval_window),
                            query_interval_window[f][k])]]
  /\ written' = written \cup {"corpus-window6.jsonl"}
  /\ UNCHANGED << no_links, texts, mode, window_size, pass1Vars, total_windows,
                  corpus_window, raised, query_interval_window, qrelsVars >>

\* ------------------------------------------------- ordered dicts (Python dict)
\* a dict is a sequence of <<key, value>> in insertion order
DictKeys(d) == {d[i][1] : i \in 1..Len(d)}

DictGet(d, k) == (CHOOSE i \in 1..Len(d) : d[i][1] = k) 

DictValue(d, k) == d[DictGet(d, k)][2]

\* d[k] = v: a present key keeps its place
DictSet(d, k, v) ==
  IF k \in DictKeys(d)
    THEN [i \in 1..Len(d) |-> IF d[i][1] = k THEN <<k, v>> ELSE d[i]]
    ELSE Append(d, <<k, v>>)

\* ----------------------------------------------- pass 2, derived granularities
Derived == {"paras", "articles", "windows"}

\* qrels_sents[fact_id][sent_id] = int(relevance)
LoadRow(qs, f, s, r) ==
  LET inner == IF f \in DictKeys(qs) THEN DictValue(qs, f) ELSE <<>>
  IN  DictSet(qs, f, DictSet(inner, s, r))

\* one line of qrels.tsv
LoadQrelsRow(f, s, r) ==
  /\ mode \in Derived
  /\ \/ pc = "qrels"
     \/ pc = "facts" /\ mode # "windows"
  /\ Len(qrels_file) < MaxRows
  /\ pc' = "qrels"
  /\ qrels_file' = Append(qrels_file, <<f, s, r>>)
  /\ qrels_sents' = LoadRow(qrels_sents, f, s, r)
  /\ UNCHANGED << written, no_links, texts, mode, window_size, pass1Vars, windowVars,
                  updated_qrels, qrels_out, sentQrelsVars >>

\* a line of qrels.tsv without exactly three fields:
\* `if len(parts) != 3: continue'
LoadShortRow ==
  /\ mode \in Derived
  /\ \/ pc = "qrels"
     \/ pc = "facts" /\ mode # "windows"
  /\ Len(qrels_file) < MaxRows
  /\ MalformedRead < MaxMalformed
  /\ pc' = "qrels"
  /\ qrels_file' = Append(qrels_file, ShortRow)
  /\ UNCHANGED << written, no_links, texts, mode, window_size, pass1Vars, windowVars,
                  qrels_sents, updated_qrels, qrels_out, sentQrelsVars >>

\* a line of qrels.tsv whose third field is no integer: int(relevance) raises
\* ValueError
LoadBadScoreRow ==
  /\ mode \in Derived
  /\ \/ pc = "qrels"
     \/ pc = "facts" /\ mode # "windows"
  /\ Len(qrels_file) < MaxRows
  /\ pc' = "crashed"
  /\ UNCHANGED << written, no_links, texts, mode, window_size, pass1Vars, windowVars,
                  qrelsVars >>

\* variant: the new score replaces the old one
Max_TakesNew(a, b) == b

\* max(scores[unit], sent_rel)
Max(a, b) == IF a >= b THEN a ELSE b

\* query_interval.get(fact_id, []) / extended_query_interval.get(fact_id, [])
IntervalsOf(f) ==
  LET table == IF mode = "windows" THEN extended_query_interval ELSE query_interval
  IN  IF f + 1 \in DOMAIN table THEN table[f + 1] ELSE <<>>

\* valid_para_ids / valid_article_ids / valid_window_ids of a fact
ValidUnits(f) ==
  LET ivs == IntervalsOf(f)
  IN  IF mode = "windows"
        THEN {w \in 0..(Len(corpus_window) - 1) :
                \E k \in 1..Len(ivs) :
                   w <= ivs[k][2] /\ w + window_size - 1 >= ivs[k][1]}
        ELSE {p \in 0..(Len(corpus) - 1) :
                \E k \in 1..Len(ivs) : ivs[k][1] <= p /\ p <= ivs[k][2]}

UnitText(p) == IF mode = "windows" THEN corpus_window[p + 1] ELSE corpus[p + 1]

\* the loop `for sent_id, sent_rel in sent_rel_dict.items()' from its k-th
\* entry on; scores is the defaultdict(int) built so far
RECURSIVE ScoreLoop(_, _, _, _)
ScoreLoop(sent_rel_dict, k, valid, scores) ==
  IF k > Len(sent_rel_dict) THEN scores
  ELSE LET sent_id == sent_rel_dict[k][1]
           sent_rel == sent_rel_dict[k][2]
       IN  IF sent_id + 1 \notin DOMAIN corpus_sentences
             THEN ScoreLoop(sent_rel_dict, k + 1, valid, scores)
             ELSE LET hit == {p \in valid :
                                is_sentence_in_paragraph(corpus_sentences[sent_id + 1],
                                                         UnitText(p))}
                      next == [p \in DOMAIN scores \cup hit |->
                                 IF p \in hit
                                   THEN Max(IF p \in DOMAIN scores THEN scores[p] ELSE 0,
                                            sent_rel)
                                   ELSE scores[p]]
                  IN  ScoreLoop(sent_rel_dict, k + 1, valid, next)

\* the rows of one fact, units in ascending order
RECURSIVE RowsOf(_, _, _)
RowsOf(f, scores, left) ==
  IF left = {} THEN <<>>
  ELSE LET p == CHOOSE x \in left : \A y \in left : x <= y
       IN  <<<<f, p, scores[p]>>>> \o RowsOf(f, scores, left \ {p})

RECURSIVE RowsFrom(_, _)
RowsFrom(uq, k) ==
  IF k > Len(uq) THEN <<>>
  ELSE RowsOf(uq[k][1], uq[k][2], DOMAIN uq[k][2]) \o RowsFrom(uq, k + 1)

\* the files a derived script writes after the aggregation
DerivedOutputs ==
  CASE mode = "paras" -> {"qrels-paragraphs.tsv", "corpus-paragraphs.jsonl"}
    [] mode = "articles" -> {"qrels-articles.tsv", "corpus-articles.jsonl"}
    [] mode = "windows" -> {"qrels-window6.tsv"}

\* the aggregation loop over qrels_sents.items() and the write of the files
Aggregate ==
  /\ mode \in Derived
  /\ \/ pc = "qrels"
     \/ pc = "facts" /\ mode # "windows"
  /\ pc' = "done"
  /\ LET uq == [k \in 1..Len(qrels_sents) |->
                  <<qrels_sents[k][1],
                    ScoreLoop(qrels_sents[k][2], 1, ValidUnits(qrels_sents[k][1]), <<>>)>>]
     IN  /\ updated_qrels' = uq
         /\ qrels_out' = RowsFrom(uq, 1)
  /\ written' = written \cup DerivedOutputs
  /\ UNCHANGED << no_links, texts, mode, window_size, pass1Vars, windowVars, qrels_file,
                  qrels_sents, sentQrelsVars >>

\* ------------------------------------------------- pass 2, sentence granularity
\* the judged excerpts of the model
Excerpts == {TxtA, TxtB, <<"a", SP, "b">>}

\* set(text.split()): the maximal runs of non-space characters; cur is the
\* word being read
RECURSIVE WordsFrom(_, _)
WordsFrom(t, cur) ==
  IF t = <<>> THEN (IF cur = <<>> THEN {} ELSE {cur})
  ELSE IF IsSpace(Head(t))
         THEN (IF cur = <<>> THEN {} ELSE {cur}) \cup WordsFrom(Tail(t), <<>>)
         ELSE WordsFrom(Tail(t), Append(cur, Head(t)))

\* set(preprocess_text(text).lower().split()); the alphabet is lower case
Words(t) == WordsFrom(preprocess_text(t), <<>>)

\* threshold=0.2 of the call in the qrels loop, as a fraction
ThresholdNum == 1
ThresholdDen == 5

\* the loop of find_id_by_text over the units lo..hi of the corpus, from unit p
\* on; best is <<best_match_id or -1, intersection, union>> of the best so far
RECURSIVE FindLoop(_, _, _, _)
FindLoop(target_words, p, hi, best) ==
  IF p > hi \/ p + 1 > Len(corpus) THEN best
  ELSE LET corpus_words == Words(corpus[p + 1])
           intersection == Cardinality(target_words \cap corpus_words)
           union == Cardinality(target_words \cup corpus_words)
           \* similarity > best_similarity and similarity >= threshold
           better == /\ union # 0
                     /\ intersection * best[3] > best[2] * union
                     /\ intersection * ThresholdDen >= ThresholdNum * union
       IN  FindLoop(target_words, p + 1, hi,
                    IF better THEN <<p, intersection, union>> ELSE best)

\* variant: the search runs over the whole corpus
find_id_by_text_WholeCorpus(iv, text) ==
  FindLoop(Words(text), 0, Len(corpus) - 1, <<0 - 1, 0, 1>>)[1]

\* find_id_by_text over the units of the interval; -1 stands for None
find_id_by_text(iv, text) ==
  FindLoop(Words(text), IF iv[1] > 0 THEN iv[1] ELSE 0, iv[2], <<0 - 1, 0, 1>>)[1]

\* sents.py: the writes of queries_interval.json, corpus.jsonl and
\* link_intervals.jsonl after the loop over the facts
WriteCorpus ==
  /\ mode = "sents"
  /\ pc = "facts"
  /\ pc' = "scores"
  /\ written' = written \cup {"queries_interval.json", "corpus.jsonl",
                               "link_intervals.jsonl"}
  /\ UNCHANGED << no_links, texts, mode, window_size, pass1Vars, windowVars, qrelsVars >>

\* one score_item of link k of fact q in the qrels loop
ScoreItem(q, k, text, relevance) ==
  /\ mode = "sents"
  /\ pc = "scores"
  /\ q \in 1..Len(data) /\ k \in 1..Len(data[q])
  /\ q > cursor[1] \/ (q = cursor[1] /\ k >= cursor[2])
  /\ Len(qrels_lines) + Len(not_found_lines) < MaxRows
  /\ pc' = "scores"
  /\ cursor' = <<q, k>>
  /\ LET article_url == data[q][k]
         doc_id == find_id_by_text(processed_links[article_url], text)
     IN  IF article_url \notin DOMAIN processed_links \/ relevance = 0
           THEN UNCHANGED << qrels_lines, not_found_lines, judged >>
           ELSE /\ judged' = judged + 1
                /\ IF doc_id >= 0
                     THEN /\ qrels_lines' =
                               Append(qrels_lines, <<q - 1, doc_id, relevance>>)
                          /\ UNCHANGED not_found_lines
                     ELSE /\ not_found_lines' =
                               Append(not_found_lines, <<q - 1, text, relevance>>)
                          /\ UNCHANGED qrels_lines
  /\ UNCHANGED << written, no_links, texts, mode, window_size, pass1Vars, windowVars,
                  qrels_file, qrels_sents, updated_qrels, qrels_out >>

\* a score_item without a score key, of link k of fact q whose URL has an
\* interval: int(None) raises TypeError
ScoreItemNoScore(q, k) ==
  /\ mode = "sents"
  /\ pc = "scores"
  /\ q \in 1..Len(data) /\ k \in 1..Len(data[q])
  /\ q > cursor[1] \/ (q = cursor[1] /\ k >= cursor[2])
  /\ data[q][k] \in DOMAIN processed_links
  /\ pc' = "crashed"
  /\ cursor' = <<q, k>>
  /\ UNCHANGED << written, no_links, texts, mode, window_size, pass1Vars, windowVars,
                  qrels_file, qrels_sents, updated_qrels, qrels_out, qrels_lines,
                  not_found_lines, judged >>

\* the writes of qrels.tsv and not_found.jsonl
WriteQrels ==
  /\ mode = "sents"
  /\ pc = "scores"
  /\ pc' = "done"
  /\ qrels_out' = qrels_lines
  /\ written' = written \cup {"qrels.tsv", "not_found.jsonl"}
  /\ UNCHANGED << no_links, texts, mode, window_size, pass1Vars, windowVars, qrels_file,
                  qrels_sents, updated_qrels, sentQrelsVars >>

\* pass 1 and the window assembler
Construct ==
  \/ CreateQueries
  \/ BeginFact
  \/ \E u \in Urls, d \in Documents : ProcessLink(u, d)
  \/ EndFact
  \/ \E w \in 1..MaxWindow : BuildWindows(w)
  \/ ConvertIntervals
  \/ ExtendIntervals

\* pass 2
Propagate ==
  \/ \E f \in 0..(MaxFacts - 1), s \in 0..(Len(corpus_sentences) - 1), r \in Scores :
       f < fact_counter /\ LoadQrelsRow(f, s, r)
  \/ Aggregate
  \/ \E q \in 1..MaxFacts, k \in 1..MaxRefs, text \in Excerpts, relevance \in Scores :
       ScoreItem(q, k, text, relevance)
  \/ WriteCorpus
  \/ WriteQrels

\* the steps on malformed records and on sources without text
Malformed ==
  \/ CreateQueriesNoFact
  \/ BeginFactNoLinks
  \/ \E u \in Urls, d \in {AbsentText, NullText} : ProcessLinkNoText(u, d)
  \/ \E d \in Documents : ProcessLinkNoUrl(d)
  \/ LoadShortRow
  \/ LoadBadScoreRow
  \/ \E f \in 0..(MaxFacts - 1), r \in Scores :
       /\ f < fact_counter
       /\ MalformedRead < MaxMalformed
       /\ LoadQrelsRow(f, Len(corpus_sentences), r)
  \/ \E q \in 1..MaxFacts, k \in 1..MaxRefs : ScoreItemNoScore(q, k)

Next == Construct \/ Propagate

\* preprocess_text alone: a text of at most MaxTextLen characters
InitNormalize ==
  /\ mode = "sents"
  /\ pc = "normalize"
  /\ texts \in {<<t>> : t \in UNION {[1..n -> NormChars] : n \in 0..MaxTextLen}}
  /\ Blank

\* preprocess_text applied to the last result
Normalize ==
  /\ pc = "normalize"
  /\ Len(texts) <= MaxApplied
  /\ texts' = Append(texts, preprocess_text(texts[Len(texts)]))
  /\ UNCHANGED << written, no_links, mode, pc, window_size, pass1Vars,
                  windowVars, qrelsVars >>

SpecNormalize == InitNormalize /\ [][Normalize]_vars

\* a whole run of one script
Spec == Init /\ [][Next]_vars

\* the construction of the corpus and the intervals alone
SpecConstruct == Init /\ [][Construct]_vars

\* the end of a run whose propagation pass reads no well-formed record
Finish == Aggregate \/ WriteCorpus \/ WriteQrels

\* a run of one script on an input that may hold malformed records and
\* references without text; the propagation pass reads malformed records only
SpecMalformed == Init /\ [][Construct \/ Malformed \/ Finish]_vars

\* ------------------------------------------------------------------ claims
Range(seq) == {seq[i] : i \in 1..Len(seq)}

SetMax(S) == CHOOSE m \in S : \A x \in S : x <= m

\* the URLs that the facts before the current one referenced
EarlierUrls == UNION {Range(data[i]) : i \in 1..(Len(data) - 1)}

\* the URL of the reference ProcessLink has just read
LastUrl == data[Len(data)][Len(data[Len(data)])]

\* C1: the closed intervals cached for two distinct source URLs share no unit
\* index.
C1_IntervalsDisjoint ==
  \A u \in DOMAIN processed_links, v \in DOMAIN processed_links :
    u # v =>
      (processed_links[u][1]..processed_links[u][2])
        \cap (processed_links[v][1]..processed_links[v][2]) = {}

\* two cached source documents, each with at least one unit
C1_Witness ==
  \E u \in DOMAIN processed_links, v \in DOMAIN processed_links :
    /\ u # v
    /\ processed_links[u][1] <= processed_links[u][2]
    /\ processed_links[v][1] <= processed_links[v][2]

\* C2: a reference to a URL that an earlier fact referenced leaves the unit
\* counter and the corpus unchanged, the only interval it may append to the
\* fact's list is the one cached for the URL (and it does append it when the
\* URL is cached and new in this fact), and the earlier facts keep their
\* entries and the fact counter its value.
C2_DedupReuse ==
  [][ (pc = "links" /\ pc' = "links" /\ data' # data) =>
        LET u == data'[Len(data')][Len(data'[Len(data')])]
        IN  u \in EarlierUrls =>
              /\ doc_counter' = doc_counter
              /\ corpus' = corpus
              /\ processed_links' = processed_links
              /\ \/ intervals_for_fact' = intervals_for_fact
                 \/ /\ u \in DOMAIN processed_links
                    /\ intervals_for_fact' =
                         Append(intervals_for_fact, processed_links[u])
              /\ (u \in DOMAIN processed_links /\ u \notin fact_links =>
                    intervals_for_fact' = Append(intervals_for_fact, processed_links[u]))
              /\ query_interval' = query_interval
              /\ fact_counter' = fact_counter ]_vars

\* a second fact has just referenced the cached, non-empty source document of
\* an earlier fact and holds its interval
C2_Witness ==
  /\ pc = "links"
  /\ Len(data) >= 2
  /\ data[Len(data)] # <<>>
  /\ LastUrl \in EarlierUrls
  /\ LastUrl \in DOMAIN processed_links
  /\ processed_links[LastUrl][1] <= processed_links[LastUrl][2]
  /\ intervals_for_fact = <<processed_links[LastUrl]>>
  /\ query_interval[1] = <<processed_links[LastUrl]>>

\* C3: every row of an emitted derived relevance file has a score greater
\* than 0.
C3_NoZeroScoreRows ==
  (pc = "done" /\ mode \in Derived) =>
    \A i \in 1..Len(qrels_out) : qrels_out[i][3] > 0

\* C4: after cross-query extension both ends of every window interval of every
\* fact lie in 0 .. total_windows - 1.
C4_ExtendedInBounds ==
  (mode = "windows" /\ pc \in {"qrels", "done"}) =>
    \A f \in 1..Len(extended_query_interval) :
      \A k \in 1..Len(extended_query_interval[f]) :
        /\ 0 <= extended_query_interval[f][k][1]
        /\ extended_query_interval[f][k][1] <= total_windows - 1
        /\ 0 <= extended_query_interval[f][k][2]
        /\ extended_query_interval[f][k][2] <= total_windows - 1

\* the judged sentences of dict entry k of qrels_sents that are in the sentence
\* corpus and whose text the text of unit p contains
JudgedIn(k, p) ==
  {j \in 1..Len(qrels_sents[k][2]) :
     /\ qrels_sents[k][2][j][1] + 1 \in DOMAIN corpus_sentences
     /\ is_sentence_in_paragraph(corpus_sentences[qrels_sents[k][2][j][1] + 1],
                                 UnitText(p))}

\* C5: for every judged fact and every candidate unit, when judged sentences of
\* the fact are contained in the unit's text, the unit's propagated score is
\* the maximum of those sentences' scores, in whatever order the sentences
\* were judged.
C5_MaxAggregation ==
  (pc = "done" /\ mode \in Derived) =>
    \A k \in 1..Len(qrels_sents) :
      \A p \in ValidUnits(qrels_sents[k][1]) :
        JudgedIn(k, p) # {} =>
          /\ p \in DOMAIN updated_qrels[k][2]
          /\ updated_qrels[k][2][p] =
               SetMax({qrels_sents[k][2][j][2] : j \in JudgedIn(k, p)})

\* a unit contains two distinct judged sentences of a fact, and the one judged
\* first has the higher score
C5_Witness ==
  /\ pc = "done"
  /\ mode \in Derived
  /\ \E k \in 1..Len(qrels_sents) :
       \E p \in ValidUnits(qrels_sents[k][1]) :
         /\ JudgedIn(k, p) = {1, 2}
         /\ qrels_sents[k][2][1][2] > qrels_sents[k][2][2][2]
         /\ qrels_sents[k][2][2][2] > 0

\* the rows of the relevance file read for fact f whose sentence is in the
\* sentence corpus and is contained in the text of unit p
RowsIn(f, p) ==
  {i \in 1..Len(qrels_file) :
     /\ Len(qrels_file[i]) = 3
     /\ qrels_file[i][1] = f
     /\ qrels_file[i][2] + 1 \in DOMAIN corpus_sentences
     /\ is_sentence_in_paragraph(corpus_sentences[qrels_file[i][2] + 1], UnitText(p))}

\* C6: the score retained for a candidate unit is the maximum over all the
\* rows of the relevance file for that fact whose sentence the unit contains,
\* several rows for one (fact, sentence) pair included.
C6_MaxOverAllRows ==
  (pc = "done" /\ mode \in Derived) =>
    \A k \in 1..Len(updated_qrels) :
      \A p \in ValidUnits(updated_qrels[k][1]) :
        RowsIn(updated_qrels[k][1], p) # {} =>
          /\ p \in DOMAIN updated_qrels[k][2]
          /\ updated_qrels[k][2][p] =
               SetMax({qrels_file[i][3] : i \in RowsIn(updated_qrels[k][1], p)})

\* C7: in every emitted relevance file each (fact, unit) pair is in at most
\* one row.
C7_OneRowPerPair ==
  pc = "done" =>
    \A i \in 1..Len(qrels_out), j \in 1..Len(qrels_out) :
      (qrels_out[i][1] = qrels_out[j][1] /\ qrels_out[i][2] = qrels_out[j][2])
        => i = j

\* C8: the window corpus holds T - W + 1 windows when W <= T and none when
\* W > T, and building it raises nothing.
C8_WindowCount ==
  /\ ~raised
  /\ (mode = "windows" /\ pc \in {"convert", "extend", "qrels", "done"}) =>
       Len(corpus_window) =
         IF window_size <= Len(corpus) THEN Len(corpus) - window_size + 1 ELSE 0

\* three sentences under windows of two sentences: two windows
C8_Witness ==
  /\ mode = "windows"
  /\ pc = "convert"
  /\ window_size = 2
  /\ Len(corpus) = 3
  /\ Len(corpus_window) = 2

\* C9: when window_size exceeds total_sentences, every fact's window interval
\* list is empty, before and after cross-query extension.
C9_OversizedWindowEmpty ==
  (mode = "windows" /\ window_size > doc_counter) =>
    /\ \A f \in 1..Len(query_interval_window) : query_interval_window[f] = <<>>
    /\ \A f \in 1..Len(extended_query_interval) : extended_query_interval[f] = <<>>

\* C10: every interval in the source-interval cache or in a fact's interval
\* list has start <= end.
C10_IntervalsWellFormed ==
  /\ \A u \in DOMAIN processed_links : processed_links[u][1] <= processed_links[u][2]
  /\ \A k \in 1..Len(intervals_for_fact) :
       intervals_for_fact[k][1] <= intervals_for_fact[k][2]
  /\ \A f \in 1..Len(query_interval) :
       \A k \in 1..Len(query_interval[f]) :
         query_interval[f][k][1] <= query_interval[f][k][2]

\* the cached intervals that hold unit index i
HoldersOf(i) ==
  {u \in DOMAIN processed_links :
     processed_links[u][1] <= i /\ i <= processed_links[u][2]}

\* C19: a reference that caches a source document stores the interval
\* (counter before, counter after - 1), whose length is the number of units
\* the reference added to the corpus; the counter always equals the corpus
\* size and every index 0 .. counter - 1 lies in exactly one cached interval.
C19_IntervalCoversUnits ==
  /\ [](/\ doc_counter = Len(corpus)
        /\ \A i \in 0..(doc_counter - 1) : Cardinality(HoldersOf(i)) = 1)
  /\ [][ \A u \in DOMAIN processed_links' \ DOMAIN processed_links :
           /\ processed_links'[u] = <<doc_counter, doc_counter' - 1>>
           /\ processed_links'[u][2] - processed_links'[u][1] + 1
                = Len(corpus') - Len(corpus) ]_vars

\* the second cached source document has just added two units after the one
\* unit of the first
C19_Witness ==
  /\ pc = "links"
  /\ mode \in {"sents", "paras", "articles"}
  /\ Cardinality(DOMAIN processed_links) = 2
  /\ doc_counter = 3
  /\ Len(corpus) = 3
  /\ data[Len(data)] # <<>>
  /\ LastUrl \in DOMAIN processed_links
  /\ processed_links[LastUrl] = <<1, 2>>

\* the references of a fact with the repeated URLs dropped, in order of first
\* reference; seen holds the URLs met so far
RECURSIVE FirstRefs(_, _)
FirstRefs(refs, seen) ==
  IF refs = <<>> THEN <<>>
  ELSE IF Head(refs) \in seen THEN FirstRefs(Tail(refs), seen)
  ELSE <<Head(refs)>> \o FirstRefs(Tail(refs), seen \cup {Head(refs)})

\* one entry per distinct URL of refs that has an interval, in order of first
\* reference
OnePerUrl(refs) ==
  LET urls == SelectSeq(FirstRefs(refs, {}), LAMBDA u : u \in DOMAIN processed_links)
  IN  [k \in 1..Len(urls) |-> processed_links[urls[k]]]

\* C16: the interval list of every fact has exactly one entry for each distinct
\* URL of the fact that contributes an interval, in the order in which the
\* URLs are first referenced; a repeated reference adds nothing.
C16_OneEntryPerUrl ==
  /\ \A f \in 1..Len(query_interval) : query_interval[f] = OnePerUrl(data[f])
  /\ pc = "links" => intervals_for_fact = OnePerUrl(data[Len(data)])

\* a fact that referenced a first URL, a second one, and the first one again
\* holds two intervals
C16_Witness ==
  /\ pc = "facts"
  /\ Len(data) = 1
  /\ Len(data[1]) = 3
  /\ data[1][1] # data[1][2]
  /\ data[1][3] = data[1][1]
  /\ Len(query_interval[1]) = 2
  /\ query_interval[1][1] # query_interval[1][2]

Min(a, b) == IF a <= b THEN a ELSE b

\* C15: cross-query extension keeps the starts of the fact with the smallest
\* id and the ends of the fact with the largest id; every other start is
\* lowered by window_size - 1 but not below 0, every other end is raised by
\* window_size - 1 but not above total_windows - 1.
C15_ExtensionAsymmetry ==
  (mode = "windows" /\ pc \in {"qrels", "done"}) =>
    /\ Len(extended_query_interval) = Len(query_interval_window)
    /\ \A f \in 1..Len(query_interval_window) :
         /\ Len(extended_query_interval[f]) = Len(query_interval_window[f])
         /\ \A k \in 1..Len(query_interval_window[f]) :
              LET before == query_interval_window[f][k]
                  after == extended_query_interval[f][k]
              IN  /\ after[1] = IF f = 1 THEN before[1]
                                ELSE Max(0, before[1] - (window_size - 1))
                  /\ after[2] = IF f = Len(query_interval_window) THEN before[2]
                                ELSE Min(total_windows - 1, before[2] + (window_size - 1))

\* two facts under windows of two sentences: the end of the first fact's
\* interval was raised and its start kept, the start of the second fact's
\* interval was lowered and its end kept
C15_Witness ==
  /\ mode = "windows"
  /\ pc = "qrels"
  /\ window_size = 2
  /\ Len(query_interval_window) = 2
  /\ query_interval_window[1] # <<>>
  /\ query_interval_window[2] # <<>>
  /\ extended_query_interval[1][1][1] = query_interval_window[1][1][1]
  /\ extended_query_interval[1][1][2] = query_interval_window[1][1][2] + 1
  /\ extended_query_interval[2][1][1] = query_interval_window[2][1][1] - 1
  /\ extended_query_interval[2][1][2] = query_interval_window[2][1][2]

\* C17: when window_size <= total_sentences, the window interval computed
\* for a sentence interval [s, e] contains the index of every window whose
\* sentences i .. i + window_size - 1 include a sentence of [s, e].
C17_WindowIntervalCoverage ==
  (mode = "windows" /\ pc \in {"extend", "qrels", "done"}
     /\ window_size <= doc_counter) =>
    \A f \in 1..Len(query_interval) :
      \A k \in 1..Len(query_interval[f]) :
        \A i \in 0..(total_windows - 1) :
          (i <= query_interval[f][k][2]
             /\ i + window_size - 1 >= query_interval[f][k][1]) =>
            /\ query_interval_window[f][k][1] <= i
            /\ i <= query_interval_window[f][k][2]

\* C18: a row (fact, unit) is in an emitted derived relevance file only if the
\* unit's global index lies inside one of the intervals of the fact's list at
\* that granularity (the extended window interval list for windows).
C18_CandidateRestriction ==
  (pc = "done" /\ mode \in Derived) =>
    \A i \in 1..Len(qrels_out) :
      \E k \in 1..Len(IntervalsOf(qrels_out[i][1])) :
        /\ IntervalsOf(qrels_out[i][1])[k][1] <= qrels_out[i][2]
        /\ qrels_out[i][2] <= IntervalsOf(qrels_out[i][1])[k][2]

\* C20: the per-fact sentence interval lists and the cached per-URL intervals
\* that windows.py builds are those that sents.py builds for the same facts,
\* source documents without text or without sentences included.
C20_SentenceIntervalsAgree ==
  (mode = "windows" /\ pc = "facts") =>
    /\ processed_links = SentsFacts(data, <<>>, 0, <<>>)[1]
    /\ query_interval = SentsFacts(data, <<>>, 0, <<>>)[2]

\* C11: when the run aborts on a record that lacks a required field (the fact
\* text, the source text, a judgment score), no output file has been written.
C11_AbortBeforeOutput ==
  pc = "crashed" => written = {}

\* the source of a reference has no text: absent, null or empty
NoText(d) == d \in {AbsentText, NullText} \/ ArticleText(d) = <<>>

\* C12: a reference whose source has no text (absent, null or empty) is
\* skipped in every script: it adds no unit and no interval to the fact's
\* list, and the run goes on without raising.
C12_MissingSourceSkipped ==
  [][ (pc = "links" /\ data' # data /\ Len(data') = Len(data)) =>
        (NoText(link_data'[data'[Len(data')][Len(data'[Len(data')])]]) =>
           /\ pc' = "links"
           /\ corpus' = corpus
           /\ doc_counter' = doc_counter
           /\ intervals_for_fact' = intervals_for_fact) ]_vars

\* C13: a run that read a fact without source list, a reference without URL,
\* a relevance row without exactly three fields or a relevance row naming a
\* sentence id absent from the sentence corpus fails: it does not complete.
C13_MalformedFailsFast ==
  pc = "done" => MalformedRecords = 0

\* C14: preprocess_text(preprocess_text(x)) = preprocess_text(x) for every
\* text x: the empty text, texts with header markers, with non-breaking
\* spaces, with leading and trailing whitespace, with combining marks after a
\* space.
C14_NormalizerIdempotent ==
  (pc = "normalize" /\ Len(texts) = 3) => texts[3] = texts[2]

\* the interval cached for the URL of the reference the qrels loop is at
\* after the step
IntervalAtCursor == processed_links[data[cursor'[1]][cursor'[2]]]

\* C21: in sents.py every score item with a score other than 0 leaves exactly
\* one trace, either one line of qrels.tsv for the fact, with a unit inside the
\* interval cached for the URL of the reference, or one record of
\* not_found.jsonl, never both; a score item with score 0 leaves neither.
C21_OneOutcomePerExcerpt ==
  [][ (mode = "sents" /\ pc = "scores" /\ pc' = "scores") =>
        IF judged' = judged
          THEN qrels_lines' = qrels_lines /\ not_found_lines' = not_found_lines
          ELSE /\ judged' = judged + 1
               /\ \/ /\ not_found_lines' = not_found_lines
                     /\ Len(qrels_lines') = Len(qrels_lines) + 1
                     /\ SubSeq(qrels_lines', 1, Len(qrels_lines)) = qrels_lines
                     /\ LET row == qrels_lines'[Len(qrels_lines')]
                        IN  /\ row[1] = cursor'[1] - 1
                            /\ IntervalAtCursor[1] <= row[2]
                            /\ row[2] <= IntervalAtCursor[2]
                            /\ row[3] # 0
                  \/ /\ qrels_lines' = qrels_lines
                     /\ Len(not_found_lines') = Len(not_found_lines) + 1
                     /\ SubSeq(not_found_lines', 1, Len(not_found_lines))
                          = not_found_lines
                     /\ not_found_lines'[Len(not_found_lines')][1] = cursor'[1] - 1
                     /\ not_found_lines'[Len(not_found_lines')][3] # 0 ]_vars

\* two judged excerpts of the second source document of a fact: one left a
\* line for a unit of that document, the other a not-found record
C21_Witness ==
  /\ mode = "sents"
  /\ pc = "scores"
  /\ judged = 2
  /\ Len(qrels_lines) = 1
  /\ Len(not_found_lines) = 1
  /\ cursor[2] = 2
  /\ processed_links[data[cursor[1]][2]][1] > 0
  /\ processed_links[data[cursor[1]][2]][1] <= qrels_lines[1][2]
  /\ qrels_lines[1][2] <= processed_links[data[cursor[1]][2]][2]
====
